---- MODULE Spec2Model ----
(***************************************************************************)
(* Model of src/sdk.go of crosspay-server-sdk-go: the webhook verification *)
(* pipeline ConstructWebhookEvent, executed statement by statement by any  *)
(* number of concurrent callers, and the request/response operations of    *)
(* CrosspayServerClient.                                                   *)
(*                                                                         *)
(* Abstractions.  Instants and durations are whole seconds held as         *)
(* <<days, seconds>> pairs (0 <= seconds < 86400) because a duration of    *)
(* 2^63 ns does not fit a TLC integer; time.Duration's int64 range is kept *)
(* as MinDuration..MaxDuration.  SHA-256 is collision-free and an          *)
(* RSASSA-PKCS1-v1.5 signature is the unique value the private key yields  *)
(* for a digest.  A timestamp header is <<day, second of day, zone>>, a    *)
(* payload is a sequence of JSON tokens, a base64 header is the bytes it   *)
(* carries plus the unused trailing bits of its last symbol.               *)
(***************************************************************************)
EXTENDS Integers, Sequences, FiniteSets, TLC

\* a pointer or an optional value is <<>> (nil) or <<v>>
None == <<>>

Some(v) == <<v>>

\* ------------------------------------------------------------------ bounds
\* the number of concurrent callers of ConstructWebhookEvent
NumCalls == 2
\* the number of seconds the wall clock may advance
MaxTicks == 1
\* the longest list a collaborator endpoint returns
MaxList == 2

\* ------------------------------------------------------------ time.Duration
SecondsPerDay == 24 * 60 * 60

\* time.Minute, in seconds
Minute == 60

\* 5*time.Minute
FiveMinutes == <<0, 5 * Minute>>

\* <<days, seconds>> with 0 <= seconds < SecondsPerDay
Norm(d, s) == <<d + (s \div SecondsPerDay), s % SecondsPerDay>>

Less(a, b) == a[1] < b[1] \/ (a[1] = b[1] /\ a[2] < b[2])

\* the largest time.Duration, 2^63 - 1 ns: 106751 days 23:47:16 (.854775807)
MaxDuration == <<106751, 85636>>

\* the smallest time.Duration, -2^63 ns: below every whole-second difference
\* that fits, which are those >= -(106751 days 23:47:16)
MinDuration == <<-106752, 763>>

\* Time.Sub: the difference t - u, saturated to the range of Duration
Sub(t, u) ==
    LET d == Norm(t[1] - u[1], t[2] - u[2])
    IN  IF Less(MaxDuration, d) THEN MaxDuration
        ELSE IF ~Less(MinDuration, d) THEN MinDuration
        ELSE d

\* time.Since(t) at wall-clock reading `at`
Since(t, at) == Sub(at, t)

\* unary minus on int64: -MinDuration wraps around to MinDuration
Neg(d) == IF d = MinDuration THEN MinDuration ELSE Norm(-d[1], -d[2])

\* if timeDiff < 0 { timeDiff = -timeDiff }
AbsDiff(d) == IF d[1] < 0 THEN Neg(d) ELSE d

\* OutsideWindow with >= where the code has >
OutsideWindowInclusive(d) == ~Less(d, FiveMinutes)

\* timeDiff > 5*time.Minute
OutsideWindow(d) == Less(FiveMinutes, d)

\* ------------------------------------------------------- time.Parse(RFC3339)
\* the last day of year 9999, counting days from 0000-01-01
MaxDay == 3652424

Zones == {"Z", "+00:00", "+01:00"}

ZoneOffset(z) == IF z = "+01:00" THEN 60 * Minute ELSE 0

\* a header <<day, second, zone>> parses when its fields are in range and the
\* zone designator is one RFC 3339 allows; the instant is in UTC
ParseRFC3339(h) ==
    IF h[3] \in Zones /\ h[1] \in 0..MaxDay /\ h[2] \in 0..(SecondsPerDay - 1)
    THEN [ok |-> TRUE, t |-> Norm(h[1], h[2] - ZoneOffset(h[3]))]
    ELSE [ok |-> FALSE, t |-> <<0, 0>>]

\* ------------------------------------------------------------ cryptography
\* the bytes the platform signs: the timestamp, a dot, the body it sends
SignedBytes(timestamp, body) == <<timestamp, ".", body>>

\* Message with the separator left out
MessageNoSeparator(timestampHeader, rawPayload) == <<timestampHeader, rawPayload>>

\* data := append([]byte(timestampHeader), '.'); data = append(data, rawPayload...)
Message(timestampHeader, rawPayload) == <<timestampHeader, ".", rawPayload>>

\* sha256.Sum256
Sha256(d) == <<"sha256", d>>

\* the signature the holder of key pair `pair` makes of a digest
SignPKCS1v15(pair, digest) == [signer |-> pair, over |-> digest, intact |-> TRUE]

\* VerifyPKCS1v15 with the error of the verification dropped
VerifyAlways(pub, digest, sig) == TRUE

\* rsa.VerifyPKCS1v15(rsaPub, crypto.SHA256, hash[:], signature) == nil
VerifyPKCS1v15(pub, digest, sig) == sig = SignPKCS1v15(pub.pair, digest)

\* base64.StdEncoding.EncodeToString: canonical, trailing bits zero
EncodeToString(bytes) == [bytes |-> bytes, pad |-> 0, wellFormed |-> TRUE]

\* base64.StdEncoding.DecodeString: not Strict(), so the unused trailing bits
\* of the last symbol are not looked at
DecodeString(h) ==
    IF h.wellFormed THEN [ok |-> TRUE, bytes |-> Some(h.bytes)]
    ELSE [ok |-> FALSE, bytes |-> None]

\* pem.Decode: the first PEM block, or nil
PemDecode(key) ==
    IF key.pem THEN Some([der |-> key.der, alg |-> key.alg, pair |-> key.pair])
    ELSE None

\* x509.ParsePKIXPublicKey(block.Bytes)
ParsePKIXPublicKey(block) ==
    IF block.der
    THEN [ok |-> TRUE, pub |-> Some([alg |-> block.alg, pair |-> block.pair])]
    ELSE [ok |-> FALSE, pub |-> None]

\* IsRSA with the type assertion's ok not looked at
IsRSAUnchecked(pub) == TRUE

\* rsaPub, ok := pub.(*rsa.PublicKey)
IsRSA(pub) == pub.alg = "RSA"

\* ------------------------------------------------------------ json.Unmarshal
\* the fields of the event, GetCustomerExtendedInfoByEmailRow
EventFields == {"email", "id"}

ZeroEvent == [f \in EventFields |-> ""]

\* a payload is a sequence of tokens: members [k, t, v] of one JSON object, or
\* a stray byte (t = "stray") that breaks the document's syntax
WellFormedJSON(p) == \A n \in 1..Len(p) : p[n].t # "stray"

RECURSIVE Assign(_, _)
\* the members assigned in order, so the last of a repeated key stays; a key
\* that is no field of the event is skipped
Assign(p, ev) ==
    IF p = <<>> THEN ev
    ELSE LET m == Head(p)
         IN  Assign(Tail(p),
                    IF m.k \in EventFields /\ m.t = "string"
                    THEN [ev EXCEPT ![m.k] = m.v] ELSE ev)

\* json.Unmarshal(rawPayload, &event): syntax is checked on the whole input
\* first; a number for a string field is an UnmarshalTypeError
JsonUnmarshal(p) ==
    IF ~WellFormedJSON(p) THEN [ok |-> FALSE, event |-> None]
    ELSE IF \E n \in 1..Len(p) : p[n].k \in EventFields /\ p[n].t # "string"
    THEN [ok |-> FALSE, event |-> None]
    ELSE [ok |-> TRUE, event |-> Some(Assign(p, ZeroEvent))]

\* -------------------------------------------------------------- the errors
ErrTimestampParse == "invalid timestamp header"

ErrTimestampWindow == "timestamp is outside the 5-minute window"

ErrSignatureDecode == "failed to decode signature"

ErrPemBlock == "failed to parse PEM block containing the public key"

ErrPublicKey == "failed to parse public key"

ErrNotRSA == "public key is not RSA"

ErrVerification == "signature verification failed"

ErrPayload == "failed to parse webhook payload"

\* ConstructWebhookEvent as one function of its arguments and of the clock
\* reading `at` that time.Since takes
ConstructWebhookEvent(a, at) ==
    LET ts     == ParseRFC3339(a.timestampHeader)
        diff   == AbsDiff(Since(ts.t, at))
        sig    == DecodeString(a.signatureHeader)
        block  == PemDecode(a.webhookPublicKey)
        key    == ParsePKIXPublicKey(block[1])
        hash   == Sha256(Message(a.timestampHeader, a.rawPayload))
        parsed == JsonUnmarshal(a.rawPayload)
        Failure(e) == [event |-> None, err |-> e]
    IN  IF ~ts.ok THEN Failure(ErrTimestampParse)
        ELSE IF OutsideWindow(diff) THEN Failure(ErrTimestampWindow)
        ELSE IF ~sig.ok THEN Failure(ErrSignatureDecode)
        ELSE IF block = None THEN Failure(ErrPemBlock)
        ELSE IF ~key.ok THEN Failure(ErrPublicKey)
        ELSE IF ~IsRSA(key.pub[1]) THEN Failure(ErrNotRSA)
        ELSE IF ~VerifyPKCS1v15(key.pub[1], hash, sig.bytes[1])
             THEN Failure(ErrVerification)
        ELSE IF ~parsed.ok THEN Failure(ErrPayload)
        ELSE [event |-> parsed.event, err |-> ""]

\* ---------------------------------------------------------------- the inputs
\* the wall clock when the model starts: 100 s after a midnight of 2026
Now0 == <<739987, 100>>

\* the instant `off` seconds after Now0
At(off) == Norm(Now0[1], Now0[2] + off)

\* the header of instant t with zone designator Z
Header(t) == <<t[1], t[2], "Z">>

TimestampHeaders ==
    {Header(At(o * Minute + e)) : o \in {-5, 5}, e \in {-1, 0, 1}}
    \cup {Header(Now0),
          <<Now0[1], Now0[2], "+00:00">>,
          <<Now0[1], Now0[2] + 60 * Minute, "+01:00">>,
          <<Now0[1], Now0[2], "?">>,
          Header(<<0, 0>>),
          Header(<<MaxDay, 0>>),
          Header(Norm(Now0[1] + MaxDuration[1], Now0[2] + MaxDuration[2])),
          Header(Norm(Now0[1] + MaxDuration[1], Now0[2] + MaxDuration[2] + 2))}

RsaPem(pair) == [pem |-> TRUE, der |-> TRUE, alg |-> "RSA", pair |-> pair]

EcPem == [pem |-> TRUE, der |-> TRUE, alg |-> "ECDSA", pair |-> "k3"]

Ed25519Pem == [pem |-> TRUE, der |-> TRUE, alg |-> "Ed25519", pair |-> "k4"]

\* PEM armour around bytes that are no SubjectPublicKeyInfo
TruncatedPem == [pem |-> TRUE, der |-> FALSE, alg |-> "RSA", pair |-> "k1"]

\* text with no PEM block in it
NotPem == [pem |-> FALSE, der |-> FALSE, alg |-> "", pair |-> ""]

PublicKeys == {RsaPem("k1"), RsaPem("k2"), EcPem, Ed25519Pem, TruncatedPem, NotPem}

Str(k, v) == [k |-> k, t |-> "string", v |-> v]

Num(k, v) == [k |-> k, t |-> "number", v |-> v]

Stray == [k |-> "", t |-> "stray", v |-> ""]

Payloads ==
    {<<Str("email", "a"), Str("id", "1")>>,
     <<Str("email", "b"), Str("id", "1")>>,
     <<Str("email", "a"), Str("email", "b")>>,
     <<Str("email", "a"), Str("plan", "x")>>,
     <<Str("email", "a"), Num("id", "7")>>,
     <<Str("email", "a"), Stray>>,
     <<>>}

OtherPayload(p) ==
    IF p = <<Str("email", "a"), Str("id", "1")>>
    THEN <<Str("email", "b"), Str("id", "1")>>
    ELSE <<Str("email", "a"), Str("id", "1")>>

\* the header the platform sends: base64 of its signature of the signed bytes
Genuine(pair, timestamp, body) ==
    EncodeToString(SignPKCS1v15(pair, Sha256(SignedBytes(timestamp, body))))

\* the signature headers tried with a timestamp and a payload: genuine ones of
\* three key holders, one of another body, and a genuine one with its trailing
\* bits set, with a byte of the signature altered, with a symbol outside the
\* alphabet
SignatureHeaders(timestamp, body) ==
    LET g == Genuine("k1", timestamp, body)
    IN  {g, Genuine("k2", timestamp, body), Genuine("k3", timestamp, body),
         Genuine("k1", timestamp, OtherPayload(body)),
         [g EXCEPT !.pad = 1],
         [g EXCEPT !.bytes.intact = FALSE],
         [g EXCEPT !.wellFormed = FALSE]}

Args(key, body, sig, timestamp) ==
    [webhookPublicKey |-> key, rawPayload |-> body,
     signatureHeader |-> sig, timestampHeader |-> timestamp]

Inputs ==
    UNION {{Args(k, p, s, t) : k \in PublicKeys, s \in SignatureHeaders(t, p)} :
           t \in TimestampHeaders, p \in Payloads}

\* one byte of the payload altered: a value's character, or a byte that breaks
\* the syntax
TamperPayload(p) ==
    {[p EXCEPT ![n] = tok] : n \in 1..Len(p), tok \in {Stray}}
    \cup {[p EXCEPT ![n].v = "z"] : n \in 1..Len(p)}

\* one byte of the signature header altered: its last symbol within the unused
\* trailing bits, a symbol that carries signature bits, a symbol replaced by
\* one outside the alphabet
TamperSignature(h) ==
    {[h EXCEPT !.pad = 1 - h.pad],
     [h EXCEPT !.bytes.intact = FALSE],
     [h EXCEPT !.wellFormed = FALSE]}

\* one byte of the timestamp header altered: a digit of the seconds, or the
\* zone designator
TamperTimestamp(h) == {<<h[1], h[2] + 1, h[3]>>, <<h[1], h[2] - 1, h[3]>>, <<h[1], h[2], "?">>}

Tampered(a) ==
    {[what |-> "payload", args |-> [a EXCEPT !.rawPayload = p]] :
        p \in TamperPayload(a.rawPayload)}
    \cup {[what |-> "signature", args |-> [a EXCEPT !.signatureHeader = h]] :
            h \in TamperSignature(a.signatureHeader)}
    \cup {[what |-> "timestamp", args |-> [a EXCEPT !.timestampHeader = h]] :
            h \in TamperTimestamp(a.timestampHeader)}

\* ------------------------------------------------------------------ the state
Calls == 1..NumCalls

VARIABLES
    now,        \* the wall clock
    pc,         \* pc[i]: the statement call i is at
    args,       \* args[i]: the arguments of call i, rawPayload the caller's buffer
    given,      \* given[i]: the arguments as the caller passed them
    tamper,     \* tamper[i]: what was altered in the arguments of a repeated call
    frame,      \* frame[i]: the local variables of call i
    data,       \* data[s]: the canonical message buffers
    result,     \* result[i]: the (event, error) call i returned
    ran,        \* ran[i]: the statements call i has executed, in order
    clock,      \* clock[i]: the clock reading time.Since took in call i
    apiOp,      \* the client operation last called
    apiResp,    \* the responses the server gave to its requests
    apiLog,     \* the requests it issued, in order
    apiOut      \* what it returned

webhookVars == <<now, pc, args, given, tamper, frame, data, result, ran, clock>>

apiVars == <<apiOp, apiResp, apiLog, apiOut>>

vars == <<now, pc, args, given, tamper, frame, data, result, ran, clock,
          apiOp, apiResp, apiLog, apiOut>>

NoArgs == Args(NotPem, <<>>, EncodeToString(SignPKCS1v15("", <<>>)), <<0, 0, "?">>)

ZeroFrame ==
    [timestampDate |-> <<0, 0>>, timeDiff |-> <<0, 0>>, signature |-> None,
     block |-> None, pub |-> None, hash |-> None, event |-> None]

NoResult == [event |-> None, err |-> ""]

Untampered == [what |-> "none", from |-> None]

\* DataSlot with one buffer for all calls, as a package-level variable is
DataSlotShared(i) == 1

\* data is a local variable: each call has its own
DataSlot(i) == i

\* After with the payload decoded as soon as the timestamp is checked
AfterDecodeFirst(l) ==
    CASE l = "parse" -> "fresh"
      [] l = "fresh" -> "json"
      [] l = "json" -> "build"
      [] l = "build" -> "decode"
      [] l = "decode" -> "pem"
      [] l = "pem" -> "pkix"
      [] l = "pkix" -> "rsa"
      [] l = "rsa" -> "hash"
      [] l = "hash" -> "verify"
      [] l = "verify" -> "done"

\* the statement that follows statement l when l does not return
After(l) ==
    CASE l = "parse" -> "fresh"
      [] l = "fresh" -> "build"
      [] l = "build" -> "decode"
      [] l = "decode" -> "pem"
      [] l = "pem" -> "pkix"
      [] l = "pkix" -> "rsa"
      [] l = "rsa" -> "hash"
      [] l = "hash" -> "verify"
      [] l = "verify" -> "json"
      [] l = "json" -> "done"

Init ==
    /\ now = Now0
    /\ pc = [i \in Calls |-> "idle"]
    /\ args = [i \in Calls |-> NoArgs]
    /\ given = [i \in Calls |-> NoArgs]
    /\ tamper = [i \in Calls |-> Untampered]
    /\ frame = [i \in Calls |-> ZeroFrame]
    /\ data = [i \in Calls |-> None]
    /\ result = [i \in Calls |-> NoResult]
    /\ ran = [i \in Calls |-> <<>>]
    /\ clock = [i \in Calls |-> Now0]
    /\ apiOp = "none"
    /\ apiResp = <<>>
    /\ apiLog = <<>>
    /\ apiOut = [data |-> None, err |-> [msg |-> "", code |-> 0]]

\* ------------------------------------------------- ConstructWebhookEvent, steps
\* call i enters the function with arguments a
Enter(i, a, t) ==
    /\ pc' = [pc EXCEPT ![i] = "parse"]
    /\ args' = [args EXCEPT ![i] = a]
    /\ given' = [given EXCEPT ![i] = a]
    /\ tamper' = [tamper EXCEPT ![i] = t]
    /\ frame' = [frame EXCEPT ![i] = ZeroFrame]
    /\ result' = [result EXCEPT ![i] = NoResult]
    /\ ran' = [ran EXCEPT ![i] = <<>>]
    /\ UNCHANGED <<now, data, clock, apiVars>>

\* statement l of call i falls through to the next one, its locals now f
Proceed(i, l, f) ==
    /\ pc' = [pc EXCEPT ![i] = After(l)]
    /\ ran' = [ran EXCEPT ![i] = Append(@, l)]
    /\ frame' = [frame EXCEPT ![i] = f]
    /\ result' = IF After(l) = "done"
                 THEN [result EXCEPT ![i] = [event |-> f.event, err |-> ""]]
                 ELSE result

\* statement l of call i returns nil and error e
Return(i, l, e) ==
    /\ pc' = [pc EXCEPT ![i] = "done"]
    /\ ran' = [ran EXCEPT ![i] = Append(@, l)]
    /\ frame' = frame
    /\ result' = [result EXCEPT ![i] = [event |-> None, err |-> e]]

\* a caller calls with any key, payload, signature header and timestamp header
Start(i) ==
    /\ pc[i] = "idle"
    /\ \E a \in Inputs : Enter(i, a, Untampered)

\* after a call that succeeded, the caller alters one byte of one argument and
\* calls again
Retry(i) ==
    /\ pc[i] = "done"
    /\ result[i].err = ""
    /\ tamper[i].what = "none"
    /\ \E c \in Tampered(args[i]) :
          Enter(i, c.args, [what |-> c.what, from |-> Some(args[i])])

\* timestampDate, err := time.Parse(time.RFC3339, timestampHeader)
ParseTimestamp(i) ==
    /\ pc[i] = "parse"
    /\ LET r == ParseRFC3339(args[i].timestampHeader)
       IN  IF r.ok THEN Proceed(i, "parse", [frame[i] EXCEPT !.timestampDate = r.t])
           ELSE Return(i, "parse", ErrTimestampParse)
    /\ UNCHANGED <<now, args, given, tamper, data, clock, apiVars>>

\* timeDiff := time.Since(timestampDate), its absolute value against the window
CheckFreshness(i) ==
    /\ pc[i] = "fresh"
    /\ clock' = [clock EXCEPT ![i] = now]
    /\ LET d == AbsDiff(Since(frame[i].timestampDate, now))
       IN  IF OutsideWindow(d) THEN Return(i, "fresh", ErrTimestampWindow)
           ELSE Proceed(i, "fresh", [frame[i] EXCEPT !.timeDiff = d])
    /\ UNCHANGED <<now, args, given, tamper, data, apiVars>>

\* data := timestampHeader ++ '.' ++ rawPayload, in a buffer of its own
BuildMessage(i) ==
    /\ pc[i] = "build"
    /\ data' = [data EXCEPT ![DataSlot(i)] =
                   Some(Message(args[i].timestampHeader, args[i].rawPayload))]
    /\ Proceed(i, "build", frame[i])
    /\ UNCHANGED <<now, args, given, tamper, clock, apiVars>>

\* signature, err := base64.StdEncoding.DecodeString(signatureHeader)
DecodeSignature(i) ==
    /\ pc[i] = "decode"
    /\ LET r == DecodeString(args[i].signatureHeader)
       IN  IF r.ok THEN Proceed(i, "decode", [frame[i] EXCEPT !.signature = r.bytes])
           ELSE Return(i, "decode", ErrSignatureDecode)
    /\ UNCHANGED <<now, args, given, tamper, data, clock, apiVars>>

\* block, _ := pem.Decode([]byte(webhookPublicKey))
DecodePem(i) ==
    /\ pc[i] = "pem"
    /\ LET b == PemDecode(args[i].webhookPublicKey)
       IN  IF b = None THEN Return(i, "pem", ErrPemBlock)
           ELSE Proceed(i, "pem", [frame[i] EXCEPT !.block = b])
    /\ UNCHANGED <<now, args, given, tamper, data, clock, apiVars>>

\* pub, err := x509.ParsePKIXPublicKey(block.Bytes)
ParseKey(i) ==
    /\ pc[i] = "pkix"
    /\ LET r == ParsePKIXPublicKey(frame[i].block[1])
       IN  IF r.ok THEN Proceed(i, "pkix", [frame[i] EXCEPT !.pub = r.pub])
           ELSE Return(i, "pkix", ErrPublicKey)
    /\ UNCHANGED <<now, args, given, tamper, data, clock, apiVars>>

\* rsaPub, ok := pub.(*rsa.PublicKey)
AssertRSA(i) ==
    /\ pc[i] = "rsa"
    /\ IF IsRSA(frame[i].pub[1]) THEN Proceed(i, "rsa", frame[i])
       ELSE Return(i, "rsa", ErrNotRSA)
    /\ UNCHANGED <<now, args, given, tamper, data, clock, apiVars>>

\* hash := sha256.Sum256(data)
HashMessage(i) ==
    /\ pc[i] = "hash"
    /\ Proceed(i, "hash", [frame[i] EXCEPT !.hash = Some(Sha256(data[DataSlot(i)][1]))])
    /\ UNCHANGED <<now, args, given, tamper, data, clock, apiVars>>

\* err = rsa.VerifyPKCS1v15(rsaPub, crypto.SHA256, hash[:], signature)
VerifySignature(i) ==
    /\ pc[i] = "verify"
    /\ IF VerifyPKCS1v15(frame[i].pub[1], frame[i].hash[1], frame[i].signature[1])
       THEN Proceed(i, "verify", frame[i])
       ELSE Return(i, "verify", ErrVerification)
    /\ UNCHANGED <<now, args, given, tamper, data, clock, apiVars>>

\* json.Unmarshal(rawPayload, &event); return &event, nil
DecodePayload(i) ==
    /\ pc[i] = "json"
    /\ LET r == JsonUnmarshal(args[i].rawPayload)
       IN  IF r.ok THEN Proceed(i, "json", [frame[i] EXCEPT !.event = r.event])
           ELSE Return(i, "json", ErrPayload)
    /\ UNCHANGED <<now, args, given, tamper, data, clock, apiVars>>

\* a second passes on the wall clock
Tick ==
    /\ Less(now, At(MaxTicks))
    /\ now' = Norm(now[1], now[2] + 1)
    /\ UNCHANGED <<pc, args, given, tamper, frame, data, result, ran, clock, apiVars>>

\* the one caller of the sequential specification
Solo == CHOOSE i \in Calls : \A j \in Calls : i <= j

Next ==
    \/ Start(Solo)
    \/ Retry(Solo)
    \/ ParseTimestamp(Solo)
    \/ CheckFreshness(Solo)
    \/ BuildMessage(Solo)
    \/ DecodeSignature(Solo)
    \/ DecodePem(Solo)
    \/ ParseKey(Solo)
    \/ AssertRSA(Solo)
    \/ HashMessage(Solo)
    \/ VerifySignature(Solo)
    \/ DecodePayload(Solo)
    \/ Tick

\* every webhook a caller may receive, verified by one caller at a time
Spec == Init /\ [][Next]_vars

\* the webhooks of the concurrent specification: a genuine one at the edge of
\* the window, a genuine one of another payload, one verified with the wrong key
ConcInputs ==
    LET p1 == <<Str("email", "a"), Str("id", "1")>>
        p2 == <<Str("email", "b"), Str("id", "1")>>
        old == Header(At(-(5 * Minute)))
    IN  {Args(RsaPem("k1"), p1, Genuine("k1", old, p1), old),
         Args(RsaPem("k1"), p2, Genuine("k1", Header(Now0), p2), Header(Now0)),
         Args(RsaPem("k2"), p1, Genuine("k1", Header(Now0), p1), Header(Now0))}

\* a caller calls while other calls are under way
StartConcurrently(i) ==
    /\ pc[i] = "idle"
    /\ \E a \in ConcInputs : Enter(i, a, Untampered)

ConcNext ==
    \/ \E i \in Calls :
          \/ StartConcurrently(i)
          \/ ParseTimestamp(i)
          \/ CheckFreshness(i)
          \/ BuildMessage(i)
          \/ DecodeSignature(i)
          \/ DecodePem(i)
          \/ ParseKey(i)
          \/ AssertRSA(i)
          \/ HashMessage(i)
          \/ VerifySignature(i)
          \/ DecodePayload(i)
    \/ Tick

\* NumCalls callers verify webhooks at the same time, their statements
\* interleaved in every order
ConcSpec == Init /\ [][ConcNext]_vars

\* ------------------------------------------------- the collaborator operations
\* http.StatusOK
StatusOK == 200

NoError == [msg |-> "", code |-> 0]

\* what the generated client hands back for one request: the error of the
\* transport ("" when a response came), the status, whether the body can be
\* read and is JSON, and the envelope's error and data members (None: absent)
Response(transport, status, readable, json, error, d) ==
    [transport |-> transport, status |-> status, readable |-> readable,
     json |-> json, error |-> error, data |-> d]

Failed(e) == [data |-> None, err |-> e]

\* the part every operation starts with: the request's error, the status, the
\* body read and unmarshalled, the envelope's error; NoError when all pass
EnvelopeError(r) ==
    IF r.transport # "" THEN [msg |-> r.transport, code |-> 0]
    ELSE IF r.status # StatusOK THEN [msg |-> "unexpected status code", code |-> r.status]
    ELSE IF ~r.readable THEN [msg |-> "unexpected EOF", code |-> 0]
    ELSE IF ~r.json THEN [msg |-> "invalid character", code |-> 0]
    ELSE IF r.error # None /\ r.error[1] # "" THEN [msg |-> r.error[1], code |-> 0]
    ELSE NoError

\* ListProducts with absent data returned as it is, a nil slice
ListProductsNilData(r) ==
    IF EnvelopeError(r) # NoError THEN Failed(EnvelopeError(r))
    ELSE [data |-> r.data, err |-> NoError]

ListProducts(r) ==
    IF EnvelopeError(r) # NoError THEN Failed(EnvelopeError(r))
    ELSE IF r.data = None THEN [data |-> Some(<<>>), err |-> NoError]
    ELSE [data |-> r.data, err |-> NoError]

ListEntitlements(r) ==
    IF EnvelopeError(r) # NoError THEN Failed(EnvelopeError(r))
    ELSE IF r.data = None THEN [data |-> Some(<<>>), err |-> NoError]
    ELSE [data |-> r.data, err |-> NoError]

GetActiveSubscription(r) ==
    IF EnvelopeError(r) # NoError THEN Failed(EnvelopeError(r))
    ELSE [data |-> r.data, err |-> NoError]

\* returns &result, the whole body
ListCustomers(r) ==
    IF EnvelopeError(r) # NoError THEN Failed(EnvelopeError(r))
    ELSE [data |-> Some([error |-> r.error, data |-> r.data]), err |-> NoError]

GetCustomerInfo(r) ==
    IF EnvelopeError(r) # NoError THEN Failed(EnvelopeError(r))
    ELSE [data |-> r.data, err |-> NoError]

RECURSIVE FindLastProduct(_, _)
\* FindProduct with a loop that does not stop at the first match
FindLastProduct(products, id) ==
    IF products = <<>> THEN None
    ELSE IF products[Len(products)].ProductId = id THEN Some(products[Len(products)])
    ELSE FindLastProduct(SubSeq(products, 1, Len(products) - 1), id)

RECURSIVE FindProduct(_, _)
\* for _, product := range products { if product.ProductId == id { return &product } }
FindProduct(products, id) ==
    IF products = <<>> THEN None
    ELSE IF Head(products).ProductId = id THEN Some(Head(products))
    ELSE FindProduct(Tail(products), id)

RECURSIVE FindEntitlement(_, _)
\* for _, entitlement := range entitlements { if entitlement.Id == id { return &entitlement } }
FindEntitlement(entitlements, id) ==
    IF entitlements = <<>> THEN None
    ELSE IF Head(entitlements).Id = id THEN Some(Head(entitlements))
    ELSE FindEntitlement(Tail(entitlements), id)

\* GetActiveProduct with the responses the server gives to the subscription
\* and the products request; log: the requests issued
GetActiveProduct(rSub, rProd) ==
    LET sub == GetActiveSubscription(rSub)
        products == ListProducts(rProd)
    IN  IF sub.err # NoError
        THEN [data |-> None, err |-> sub.err, log |-> <<"subscription">>]
        ELSE IF sub.data = None
        THEN [data |-> None, err |-> NoError, log |-> <<"subscription">>]
        ELSE IF products.err # NoError
        THEN [data |-> None, err |-> products.err, log |-> <<"subscription", "products">>]
        ELSE [data |-> FindProduct(products.data[1], sub.data[1].ProductId),
              err |-> NoError, log |-> <<"subscription", "products">>]

GetActiveEntitlement(rSub, rProd, rEnt) ==
    LET product == GetActiveProduct(rSub, rProd)
        entitlements == ListEntitlements(rEnt)
    IN  IF product.err # NoError \/ product.data = None
        THEN product
        ELSE IF entitlements.err # NoError
        THEN [data |-> None, err |-> entitlements.err,
              log |-> Append(product.log, "entitlements")]
        ELSE [data |-> FindEntitlement(entitlements.data[1], product.data[1].EntitlementId),
              err |-> NoError, log |-> Append(product.log, "entitlements")]

\* the sequences over S of length at most n
RECURSIVE SeqsUpTo(_, _)
SeqsUpTo(S, n) ==
    IF n = 0 THEN {<<>>}
    ELSE LET shorter == SeqsUpTo(S, n - 1)
         IN  shorter \cup {Append(q, x) : q \in shorter, x \in S}

Products == [ProductId : {"p1", "p2"}, EntitlementId : {"e1", "e2"}]

Entitlements == [Id : {"e1", "e2"}, Name : {"x", "y"}]

Subscriptions == [ProductId : {"p1", "p2"}]

\* the responses of an endpoint whose data is one of `values`
Responses(values) ==
    {Response("connection refused", 0, FALSE, FALSE, None, None),
     Response("", 404, TRUE, TRUE, Some("not found"), None),
     Response("", 500, FALSE, FALSE, None, None),
     Response("", StatusOK, FALSE, FALSE, None, None),
     Response("", StatusOK, TRUE, FALSE, None, None)}
    \cup {Response("", StatusOK, TRUE, TRUE, None, d) : d \in {None} \cup {Some(v) : v \in values}}
    \cup {Response("", StatusOK, TRUE, TRUE, Some(e), d) :
            e \in {"", "boom"}, d \in {None, Some(CHOOSE v \in values : TRUE)}}

ProductLists == SeqsUpTo(Products, MaxList)

EntitlementLists == SeqsUpTo(Entitlements, MaxList)

\* a client operation is called and returns
Called(op, responses, out, log) ==
    /\ apiOp' = op
    /\ apiResp' = responses
    /\ apiOut' = out
    /\ apiLog' = log
    /\ UNCHANGED webhookVars

ListProductsCall ==
    /\ apiOp = "none"
    /\ \E r \in Responses(ProductLists) :
           Called("ListProducts", <<r>>, ListProducts(r), <<"products">>)

ListEntitlementsCall ==
    /\ apiOp = "none"
    /\ \E r \in Responses(EntitlementLists) :
           Called("ListEntitlements", <<r>>, ListEntitlements(r), <<"entitlements">>)

GetActiveSubscriptionCall ==
    /\ apiOp = "none"
    /\ \E r \in Responses(Subscriptions) :
           Called("GetActiveSubscription", <<r>>, GetActiveSubscription(r), <<"subscription">>)

ListCustomersCall ==
    /\ apiOp = "none"
    /\ \E r \in Responses({<<>>, <<"c1">>}) :
           Called("ListCustomers", <<r>>, ListCustomers(r), <<"customers">>)

GetCustomerInfoCall ==
    /\ apiOp = "none"
    /\ \E r \in Responses({"c1"}) :
           Called("GetCustomerInfo", <<r>>, GetCustomerInfo(r), <<"customer">>)

GetActiveProductCall ==
    /\ apiOp = "none"
    /\ \E rSub \in Responses(Subscriptions), rProd \in Responses(ProductLists) :
           LET out == GetActiveProduct(rSub, rProd)
           IN  Called("GetActiveProduct", <<rSub, rProd>>,
                      [data |-> out.data, err |-> out.err], out.log)

GetActiveEntitlementCall ==
    /\ apiOp = "none"
    /\ \E rSub \in Responses(Subscriptions), rProd \in Responses(ProductLists),
          rEnt \in Responses(EntitlementLists) :
           LET out == GetActiveEntitlement(rSub, rProd, rEnt)
           IN  Called("GetActiveEntitlement", <<rSub, rProd, rEnt>>,
                      [data |-> out.data, err |-> out.err], out.log)

ApiNext ==
    \/ ListProductsCall
    \/ ListEntitlementsCall
    \/ GetActiveSubscriptionCall
    \/ ListCustomersCall
    \/ GetCustomerInfoCall
    \/ GetActiveProductCall
    \/ GetActiveEntitlementCall

\* one operation of the client against every server response
ApiSpec == Init /\ [][ApiNext]_vars

\* ------------------------------------------------------ what the claims speak of
Done(i) == pc[i] = "done"

\* call i has executed statement l
Ran(i, l) == \E n \in 1..Len(ran[i]) : ran[i][n] = l

\* call i has executed statement l and l did not return
Passed(i, l) ==
    \E n \in 1..Len(ran[i]) :
        /\ ran[i][n] = l
        /\ n < Len(ran[i]) \/ ~Done(i) \/ result[i].err = ""

\* the instant t moved by s seconds
Plus(t, s) == Norm(t[1], t[2] + s)

\* the instant the timestamp header of call i names
Instant(i) == ParseRFC3339(given[i].timestampHeader).t

Parses(i) == ParseRFC3339(given[i].timestampHeader).ok

\* the instant t is no more than the window away from the clock reading c
Within(t, c) == ~Less(t, Plus(c, -(5 * Minute))) /\ ~Less(Plus(c, 5 * Minute), t)

\* the signature header of call i is the platform's for the timestamp and the
\* payload of the call, made by the holder of the RSA key the call was given
GenuineCall(i) ==
    /\ given[i].webhookPublicKey \in {RsaPem("k1"), RsaPem("k2")}
    /\ given[i].signatureHeader =
          Genuine(given[i].webhookPublicKey.pair,
                  given[i].timestampHeader, given[i].rawPayload)

\* the payload is a JSON object whose members fit the event's fields
Decodable(p) ==
    \A n \in 1..Len(p) : p[n].t # "stray" /\ (p[n].k \in EventFields => p[n].t = "string")

\* the value the payload gives field f: that of its last member named f, or
\* the empty string
FieldOf(p, f) ==
    LET at == {n \in 1..Len(p) : p[n].k = f}
    IN  IF at = {} THEN ""
        ELSE p[CHOOSE n \in at : \A m \in at : m <= n].v

IsPrefix(s, t) == Len(s) <= Len(t) /\ \A n \in 1..Len(s) : s[n] = t[n]

\* C1 as stated: a call that is over returned an event if and only if its
\* timestamp check and its signature check both succeeded
C1_EventIffBothChecks ==
    \A i \in Calls :
        Done(i) => (result[i].event # None <=> Passed(i, "fresh") /\ Passed(i, "verify"))

\* C1, amended: a call that is over returned an event if and only if its
\* timestamp check, its signature check and the decoding of the payload all
\* succeeded; an event is only ever returned for a payload whose signature
\* header carries the signature the holder of the given RSA key made of
\* timestamp.payload; and a call returns a nil event exactly when it returns an
\* error
C1_EventOnlyFromVerifiedBytes ==
    \A i \in Calls :
        Done(i) =>
            /\ result[i].event # None <=>
                  Passed(i, "fresh") /\ Passed(i, "verify") /\ Passed(i, "json")
            /\ result[i].event # None =>
                  /\ given[i].webhookPublicKey.alg = "RSA"
                  /\ DecodeString(given[i].signatureHeader).bytes =
                        Some(SignPKCS1v15(given[i].webhookPublicKey.pair,
                                 Sha256(SignedBytes(given[i].timestampHeader,
                                                    given[i].rawPayload))))
            /\ result[i].event = None <=> result[i].err # ""

\* a call returned an event
C1_Witness == \E i \in Calls : Done(i) /\ result[i].event # None

\* C2 as stated: a call with a timestamp within the window, the matching RSA
\* public key and the platform's signature of timestamp.payload returns no
\* error, and its event has the payload's values, whatever the payload
C2_GenuineAlwaysSucceeds ==
    \A i \in Calls :
        Done(i) /\ Parses(i) /\ Within(Instant(i), clock[i]) /\ GenuineCall(i) =>
            /\ result[i].err = ""
            /\ result[i].event # None
            /\ \A f \in EventFields :
                  result[i].event[1][f] = FieldOf(given[i].rawPayload, f)

\* C2, amended: the same for every payload that is a JSON object whose members
\* fit the event's fields
C2_GenuineDecodableSucceeds ==
    \A i \in Calls :
        /\ Done(i) /\ Parses(i) /\ Within(Instant(i), clock[i]) /\ GenuineCall(i)
        /\ Decodable(given[i].rawPayload)
        => /\ result[i].err = ""
           /\ result[i].event # None
           /\ \A f \in EventFields :
                 result[i].event[1][f] = FieldOf(given[i].rawPayload, f)

\* a genuine call with a timestamp at the edge of the window and a payload
\* with a repeated member has returned
C2_Witness ==
    \E i \in Calls :
        /\ Done(i) /\ Parses(i) /\ GenuineCall(i)
        /\ Within(Instant(i), clock[i]) /\ Instant(i) # clock[i]
        /\ given[i].rawPayload = <<Str("email", "a"), Str("email", "b")>>
        /\ result[i].event = Some([email |-> "b", id |-> ""])

\* C3: a call whose payload, signature header or timestamp header differs in
\* one byte from those of a call that succeeded never succeeds (the claim adds
\* that its error is the signature verification error)
C3_TamperedCallNeverSucceeds ==
    \A i \in Calls :
        Done(i) /\ tamper[i].what # "none" =>
            result[i].event = None /\ result[i].err # ""

\* C4: a timestamp exactly five minutes before or after the clock reading
\* passes the freshness check, and one a second further away makes the call
\* return the window error and no event, whatever the key, the signature and
\* the payload are
C4_WindowBoundary ==
    \A i \in Calls :
        Ran(i, "fresh") =>
            /\ Instant(i) \in {Plus(clock[i], -(5 * Minute)), Plus(clock[i], 5 * Minute)}
                  => Passed(i, "fresh")
            /\ Instant(i) \in {Plus(clock[i], -(5 * Minute) - 1),
                               Plus(clock[i], 5 * Minute + 1)}
                  => /\ Done(i)
                     /\ result[i] = [event |-> None, err |-> ErrTimestampWindow]

\* a genuine call whose timestamp is exactly five minutes old returned an event
C4_Witness ==
    \E i \in Calls :
        /\ Done(i) /\ GenuineCall(i)
        /\ Instant(i) = Plus(clock[i], -(5 * Minute))
        /\ result[i].event # None

\* C5: a timestamp later than the clock reading by more than the window is
\* rejected with the window error, as one that much earlier is, and the
\* difference compared with the window is not negative
C5_FutureRejected ==
    \A i \in Calls :
        Ran(i, "fresh") /\ Less(Plus(clock[i], 5 * Minute), Instant(i)) =>
            /\ Done(i)
            /\ result[i] = [event |-> None, err |-> ErrTimestampWindow]
            /\ frame[i].timeDiff[1] >= 0

\* C6 as stated: with a well-formed public key that is not an RSA key and a
\* well-formed signature header the call returns the key type error, which is
\* neither of the key parse errors nor the verification error, and neither
\* hashes nor verifies
C6_NonRsaKeyRejected ==
    \A i \in Calls :
        /\ Done(i)
        /\ given[i].webhookPublicKey.pem /\ given[i].webhookPublicKey.der
        /\ given[i].webhookPublicKey.alg # "RSA"
        /\ given[i].signatureHeader.wellFormed
        => /\ result[i] = [event |-> None, err |-> ErrNotRSA]
           /\ ErrNotRSA \notin {ErrPemBlock, ErrPublicKey, ErrVerification}
           /\ ~Ran(i, "hash") /\ ~Ran(i, "verify")

\* C6, amended: the same when, besides, the timestamp header passed the
\* timestamp check
C6_NonRsaKeyRejectedWhenFresh ==
    \A i \in Calls :
        /\ Done(i)
        /\ Passed(i, "fresh")
        /\ given[i].webhookPublicKey.pem /\ given[i].webhookPublicKey.der
        /\ given[i].webhookPublicKey.alg # "RSA"
        /\ given[i].signatureHeader.wellFormed
        => /\ result[i] = [event |-> None, err |-> ErrNotRSA]
           /\ ErrNotRSA \notin {ErrPemBlock, ErrPublicKey, ErrVerification}
           /\ ~Ran(i, "hash") /\ ~Ran(i, "verify")

\* a call with an elliptic-curve key and its holder's signature of the message
\* returned the key type error
C6_Witness ==
    \E i \in Calls :
        /\ Done(i)
        /\ given[i].webhookPublicKey = EcPem
        /\ given[i].signatureHeader =
              Genuine("k3", given[i].timestampHeader, given[i].rawPayload)
        /\ result[i].err = ErrNotRSA

\* the statements of ConstructWebhookEvent in the order of the source
CodeOrder ==
    <<"parse", "fresh", "build", "decode", "pem", "pkix", "rsa", "hash", "verify", "json">>

\* the stage that is complete once statement l has passed
StageOf(l) ==
    CASE l = "fresh" -> "TimestampChecked"
      [] l = "build" -> "MessageBuilt"
      [] l = "decode" -> "SignatureDecoded"
      [] l = "rsa" -> "KeyLoaded"
      [] l = "verify" -> "SignatureVerified"
      [] l = "json" -> "PayloadDecoded"
      [] OTHER -> ""

RECURSIVE StagesOf(_)
StagesOf(labels) ==
    IF labels = <<>> THEN <<>>
    ELSE IF StageOf(Head(labels)) = "" THEN StagesOf(Tail(labels))
    ELSE <<StageOf(Head(labels))>> \o StagesOf(Tail(labels))

\* the stages call i has completed, in order
StageTrace(i) ==
    StagesOf(SelectSeq(ran[i], LAMBDA l : Passed(i, l)))

\* the error a statement returns when its check fails
ErrorOf(l) ==
    CASE l = "parse" -> ErrTimestampParse
      [] l = "fresh" -> ErrTimestampWindow
      [] l = "decode" -> ErrSignatureDecode
      [] l = "pem" -> ErrPemBlock
      [] l = "pkix" -> ErrPublicKey
      [] l = "rsa" -> ErrNotRSA
      [] l = "verify" -> ErrVerification
      [] l = "json" -> ErrPayload
      [] OTHER -> ""

\* C7 as stated: the stages complete in the order TimestampChecked,
\* SignatureDecoded, KeyLoaded and MessageBuilt in either order,
\* SignatureVerified, PayloadDecoded
C7_StageOrderAsStated ==
    \A i \in Calls :
        \/ IsPrefix(StageTrace(i),
                    <<"TimestampChecked", "SignatureDecoded", "KeyLoaded",
                      "MessageBuilt", "SignatureVerified", "PayloadDecoded">>)
        \/ IsPrefix(StageTrace(i),
                    <<"TimestampChecked", "SignatureDecoded", "MessageBuilt",
                      "KeyLoaded", "SignatureVerified", "PayloadDecoded">>)

\* C7, amended: the stages complete in the order TimestampChecked,
\* MessageBuilt, SignatureDecoded, KeyLoaded, SignatureVerified,
\* PayloadDecoded; the statements run in the order of the source, each at most
\* once; the statement whose check fails is the last one run and the call
\* returns its error; so an unparsable timestamp, then a stale one, then a
\* malformed signature header, then a key that is no PEM or no public key
\* decide the error whatever the later inputs are, a key error comes without
\* hashing or verifying, and the payload is decoded only after the signature
\* verified
C7_StageOrderOfTheCode ==
    \A i \in Calls :
        LET k == given[i].webhookPublicKey
        IN  /\ IsPrefix(ran[i], CodeOrder)
            /\ IsPrefix(StageTrace(i),
                        <<"TimestampChecked", "MessageBuilt", "SignatureDecoded",
                          "KeyLoaded", "SignatureVerified", "PayloadDecoded">>)
            /\ Ran(i, "json") => Passed(i, "verify")
            /\ Done(i) =>
                  /\ result[i].err = "" => ran[i] = CodeOrder
                  /\ result[i].err # "" => result[i].err = ErrorOf(ran[i][Len(ran[i])])
                  /\ result[i].err \in {ErrPemBlock, ErrPublicKey} =>
                        ~Ran(i, "hash") /\ ~Ran(i, "verify")
                  /\ ~Parses(i) => result[i].err = ErrTimestampParse
                  /\ Parses(i) /\ Less(Instant(i), Plus(clock[i], -(5 * Minute)))
                        => result[i].err = ErrTimestampWindow
                  /\ Passed(i, "fresh") /\ ~given[i].signatureHeader.wellFormed
                        => result[i].err = ErrSignatureDecode
                  /\ Passed(i, "decode") /\ ~k.pem => result[i].err = ErrPemBlock
                  /\ Passed(i, "decode") /\ k.pem /\ ~k.der
                        => result[i].err = ErrPublicKey

\* a call with a key that is no PEM, a payload that is no JSON and a signature
\* of another key holder returned the PEM error after five statements
C7_Witness ==
    \E i \in Calls :
        /\ Done(i)
        /\ given[i].webhookPublicKey = NotPem
        /\ ~Decodable(given[i].rawPayload)
        /\ given[i].signatureHeader =
              Genuine("k2", given[i].timestampHeader, given[i].rawPayload)
        /\ ran[i] = <<"parse", "fresh", "build", "decode", "pem">>
        /\ result[i].err = ErrPemBlock

\* C8: under every interleaving, a call that is over returned what
\* ConstructWebhookEvent returns for its arguments and its clock reading when
\* run alone, and the arguments, the payload buffer among them, are as the
\* caller passed them
C8_CallsAreIndependent ==
    \A i \in Calls :
        /\ args[i] = given[i]
        /\ Done(i) => result[i] = ConstructWebhookEvent(given[i], clock[i])

\* two calls are over, their statements interleaved: one started first and
\* read the clock last, one returned an event and the other an error
C8_Witness ==
    \E i, j \in Calls :
        /\ i # j /\ Done(i) /\ Done(j)
        /\ result[i].event # None /\ result[j].err # ""
        /\ given[i] # given[j]
        /\ clock[i] # clock[j]

\* the operations that issue one request
SingleRequestOps ==
    {"ListProducts", "ListEntitlements", "GetActiveSubscription",
     "ListCustomers", "GetCustomerInfo"}

\* a response came with status 200 and a body that is a JSON envelope
Delivered(r) == r.transport = "" /\ r.status = StatusOK /\ r.readable /\ r.json

\* the envelope of the response carries an error string that is not empty
CarriesError(r) == r.transport = "" /\ r.error # None /\ r.error[1] # ""

\* C9 as stated: an envelope with a non-empty error string gives a failure and
\* no data; a transport failure or a status other than 200 gives a failure
\* that names the status code; ListProducts and ListEntitlements return an
\* empty collection that is not nil, and no error, for a successful response
\* without data
C9_AsStated ==
    apiOp \in SingleRequestOps =>
        LET r == apiResp[1]
        IN  /\ CarriesError(r) => apiOut.err # NoError /\ apiOut.data = None
            /\ r.transport # "" \/ r.status # StatusOK =>
                  /\ apiOut.data = None
                  /\ apiOut.err = [msg |-> "unexpected status code", code |-> r.status]
            /\ /\ apiOp \in {"ListProducts", "ListEntitlements"}
               /\ Delivered(r) /\ ~CarriesError(r) /\ r.data = None
               => apiOut = [data |-> Some(<<>>), err |-> NoError]

\* C9, amended: a transport failure gives the transport's error unchanged,
\* which names no status code, and a response with a status other than 200
\* gives a failure that names the status code; the rest as stated, the
\* envelope's error string being the failure when the response was delivered
C9_EnvelopeConvention ==
    apiOp \in SingleRequestOps =>
        LET r == apiResp[1]
        IN  /\ CarriesError(r) => apiOut.err # NoError /\ apiOut.data = None
            /\ CarriesError(r) /\ Delivered(r) =>
                  apiOut.err = [msg |-> r.error[1], code |-> 0]
            /\ r.transport # "" =>
                  apiOut = [data |-> None, err |-> [msg |-> r.transport, code |-> 0]]
            /\ r.transport = "" /\ r.status # StatusOK =>
                  /\ apiOut.data = None
                  /\ apiOut.err = [msg |-> "unexpected status code", code |-> r.status]
            /\ /\ apiOp \in {"ListProducts", "ListEntitlements"}
               /\ Delivered(r) /\ ~CarriesError(r) /\ r.data = None
               => apiOut = [data |-> Some(<<>>), err |-> NoError]

\* ListProducts returned an empty list for an envelope with an empty error
\* string and no data
C9_Witness ==
    /\ apiOp = "ListProducts"
    /\ Delivered(apiResp[1])
    /\ apiResp[1].error = Some("") /\ apiResp[1].data = None
    /\ apiOut = [data |-> Some(<<>>), err |-> NoError]

\* the place of the first element of list q that satisfies Test, 0 if none
FirstAt(q, Test(_)) ==
    IF \E n \in 1..Len(q) : Test(q[n])
    THEN CHOOSE n \in 1..Len(q) : Test(q[n]) /\ \A m \in 1..(n - 1) : ~Test(q[m])
    ELSE 0

\* C10: GetActiveEntitlement asks for the active subscription, then the
\* products, then the entitlements; it returns the first listed entitlement
\* whose Id is the EntitlementId of the first listed product whose ProductId
\* is the subscription's; it returns nothing and no error when there is no
\* subscription, no such product or no such entitlement; a request that fails
\* ends it with that request's error, and after a request that fails or finds
\* nothing no further request is issued
C10_ActiveEntitlementJoin ==
    apiOp = "GetActiveEntitlement" =>
        LET sub == GetActiveSubscription(apiResp[1])
            products == ListProducts(apiResp[2])
            entitlements == ListEntitlements(apiResp[3])
            Nothing == [data |-> None, err |-> NoError]
        IN  IF sub.err # NoError
            THEN apiOut = Failed(sub.err) /\ apiLog = <<"subscription">>
            ELSE IF sub.data = None
            THEN apiOut = Nothing /\ apiLog = <<"subscription">>
            ELSE IF products.err # NoError
            THEN apiOut = Failed(products.err) /\ apiLog = <<"subscription", "products">>
            ELSE LET SameProduct(x) == x.ProductId = sub.data[1].ProductId
                     np == FirstAt(products.data[1], SameProduct)
                 IN  IF np = 0
                     THEN apiOut = Nothing /\ apiLog = <<"subscription", "products">>
                     ELSE /\ apiLog = <<"subscription", "products", "entitlements">>
                          /\ IF entitlements.err # NoError
                             THEN apiOut = Failed(entitlements.err)
                             ELSE LET SameEntitlement(x) ==
                                          x.Id = products.data[1][np].EntitlementId
                                      ne == FirstAt(entitlements.data[1], SameEntitlement)
                                  IN  IF ne = 0 THEN apiOut = Nothing
                                      ELSE apiOut = [data |-> Some(entitlements.data[1][ne]),
                                                     err |-> NoError]

\* two products of the subscription with different entitlements and two
\* entitlements with the Id of the first: the first of these was returned
C10_Witness ==
    /\ apiOp = "GetActiveEntitlement"
    /\ apiResp[1].data = Some([ProductId |-> "p1"])
    /\ apiResp[2].data = Some(<<[ProductId |-> "p1", EntitlementId |-> "e2"],
                                [ProductId |-> "p1", EntitlementId |-> "e1"]>>)
    /\ apiResp[3].data = Some(<<[Id |-> "e2", Name |-> "x"], [Id |-> "e2", Name |-> "y"]>>)
    /\ apiOut = [data |-> Some([Id |-> "e2", Name |-> "x"]), err |-> NoError]

====
